---- MODULE Spec2Model ----
(***************************************************************************)
(* Model of pangolin_restart_service.py: the lock-guarded restart sequence *)
(* (allocate, stop, edit docker-compose.yml, edit config.yml, start), the  *)
(* two on-disk YAML files it edits, and the live CONFIG that POST /config  *)
(* merges into.                                                            *)
(*                                                                         *)
(* Strings that the code inspects character by character (the port         *)
(* mappings of docker-compose.yml) are sequences of one-character strings, *)
(* so that `'/udp' in s`, `s.startswith('443:443')` and the f-string       *)
(* "{p}:{p}" are computed as the code computes them.  A YAML document is   *)
(* its parsed structure: a mapping is a function from keys to values.      *)
(* yaml.safe_load / yaml.dump(sort_keys=False) are taken as a structural   *)
(* round trip; an open() either fails leaving the file as it was, or the   *)
(* whole read or write completes.                                          *)
(***************************************************************************)
EXTENDS Integers, Sequences, FiniteSets, TLC

(* ---------------------------- bounds ---------------------------------- *)
NumRequests == 2
PortSpan == 1
MaxLen == 2

(* ------------------------ program constants --------------------------- *)
PortBase == 50000
MaxPort == 65535
PrivilegedBelow == 1024
HTTP_OK == 200
HTTP_BAD_REQUEST == 400
HTTP_SERVER_ERROR == 500

Requests == 1..NumRequests
Ports == PortBase..(PortBase + PortSpan)
NoOne == 0
Commands == {"restart_pangolin", "invalid_command"}

(* ------------------------------ strings -------------------------------- *)
Digit(d) == CASE d = 0 -> "0" [] d = 1 -> "1" [] d = 2 -> "2" [] d = 3 -> "3"
              [] d = 4 -> "4" [] d = 5 -> "5" [] d = 6 -> "6" [] d = 7 -> "7"
              [] d = 8 -> "8" [] d = 9 -> "9"

RECURSIVE IntToStr(_)
IntToStr(n) == IF n < 10 THEN <<Digit(n)>>
               ELSE IntToStr(n \div 10) \o <<Digit(n % 10)>>

StartsWith(s, prefix) ==
    /\ Len(s) >= Len(prefix)
    /\ SubSeq(s, 1, Len(prefix)) = prefix

Contains(s, sub) ==
    \E i \in 1..(Len(s) - Len(sub) + 1) : SubSeq(s, i, i + Len(sub) - 1) = sub

UdpMarker == <<"/", "u", "d", "p">>
TcpLiteral == <<"4", "4", "3", ":", "4", "4", "3">>

TcpMapping(p) == IntToStr(p) \o <<":">> \o IntToStr(p)
UdpMapping(p) == IntToStr(p) \o <<":">> \o IntToStr(p) \o UdpMarker

(* A ports entry is a YAML scalar: kind "str" for a string, kind "int" for *)
(* a scalar that YAML resolves to an integer; val is its text.            *)
StrEntry(s) == [kind |-> "str", val |-> s]
IntEntry(s) == [kind |-> "int", val |-> s]

RewriteEntryTcpFirst(e, p) ==
    IF e.kind = "str"
    THEN IF StartsWith(e.val, TcpLiteral) THEN StrEntry(TcpMapping(p))
         ELSE IF Contains(e.val, UdpMarker) THEN StrEntry(UdpMapping(p))
              ELSE e
    ELSE e

(* The body of the for loop of update_docker_compose_port, for one entry. *)
RewriteEntry(e, p) ==
    IF e.kind = "str"
    THEN IF Contains(e.val, UdpMarker) THEN StrEntry(UdpMapping(p))
         ELSE IF StartsWith(e.val, TcpLiteral) /\ ~Contains(e.val, UdpMarker)
              THEN StrEntry(TcpMapping(p))
              ELSE e
    ELSE e

RewritePorts(ports, p) == [i \in 1..Len(ports) |-> RewriteEntry(ports[i], p)]

(* ----------------------------- documents ------------------------------- *)
(* A file on disk: syntax "malformed" makes yaml.safe_load raise; root     *)
(* "null" is an empty document (safe_load returns None); otherwise data is *)
(* the mapping at the root.                                                *)
EmptyMap == [k \in {} |-> 0]
File(syntax, root, data) == [syntax |-> syntax, root |-> root, data |-> data]
MalformedFile == File("malformed", "null", EmptyMap)
NullFile == File("ok", "null", EmptyMap)
MappingFile(data) == File("ok", "mapping", data)

WebMapping == <<"8", "0", "8", "0", ":", "8", "0", "8", "0">>

StandardPorts == << StrEntry(TcpLiteral),
                    StrEntry(TcpLiteral \o UdpMarker),
                    StrEntry(WebMapping) >>

OtherService == [image |-> "fosrl/pangolin", ports |-> <<StrEntry(WebMapping)>>]

ManifestStandard ==
    MappingFile([name |-> "pangolin",
                 services |-> [pangolin |-> OtherService,
                               gerbil |-> [image |-> "fosrl/gerbil",
                                           ports |-> StandardPorts]]])
ManifestNoGerbil ==
    MappingFile([name |-> "pangolin", services |-> [pangolin |-> OtherService]])
ManifestNoPorts ==
    MappingFile([name |-> "pangolin",
                 services |-> [pangolin |-> OtherService,
                               gerbil |-> [image |-> "fosrl/gerbil"]]])

InitManifests == {ManifestStandard, ManifestNoGerbil, ManifestNoPorts, MalformedFile}

AppConfigStandard ==
    MappingFile([app |-> [log_level |-> "info"],
                 gerbil |-> [start_port |-> 51820,
                             base_endpoint |-> "example.com"]])
AppConfigNoGerbil == MappingFile([app |-> [log_level |-> "info"]])

InitAppConfigs == {AppConfigStandard, AppConfigNoGerbil, NullFile}

ComposeEditCached(file, p) ==
    IF file.syntax # "ok" \/ file.root # "mapping"
    THEN [raised |-> TRUE, data |-> EmptyMap]
    ELSE LET d == ManifestStandard.data
             g == d.services.gerbil IN
         [raised |-> FALSE,
          data |-> [d EXCEPT !.services.gerbil.ports = RewritePorts(g.ports, p)]]

(* yaml.safe_load followed by the in-memory edit of                        *)
(* update_docker_compose_port; raised = TRUE when an exception is raised   *)
(* before the file is opened for writing.                                  *)
ComposeEdit(file, p) ==
    IF file.syntax # "ok" \/ file.root # "mapping"
    THEN [raised |-> TRUE, data |-> EmptyMap]
    ELSE LET d == file.data IN
         IF "services" \in DOMAIN d /\ "gerbil" \in DOMAIN d.services
         THEN LET g == d.services.gerbil IN
              IF "ports" \in DOMAIN g
              THEN [raised |-> FALSE,
                    data |-> [d EXCEPT !.services.gerbil.ports = RewritePorts(g.ports, p)]]
              ELSE [raised |-> FALSE, data |-> d]
         ELSE [raised |-> FALSE, data |-> d]

(* yaml.safe_load followed by the in-memory edit of update_config_port:    *)
(* outcome "raised" (exception), "missing" (no gerbil key, return False)   *)
(* or "edited".                                                            *)
SetKey(m, k, v) == [x \in DOMAIN m \cup {k} |-> IF x = k THEN v ELSE m[x]]

ConfigEditWithoutCheck(file, p) ==
    IF file.syntax # "ok" \/ file.root # "mapping"
    THEN [outcome |-> "raised", data |-> EmptyMap]
    ELSE LET d == file.data IN
         IF "gerbil" \in DOMAIN d
         THEN [outcome |-> "edited",
               data |-> [d EXCEPT !.gerbil = SetKey(d.gerbil, "start_port", p)]]
         ELSE [outcome |-> "edited", data |-> d]

ConfigEdit(file, p) ==
    IF file.syntax # "ok" \/ file.root # "mapping"
    THEN [outcome |-> "raised", data |-> EmptyMap]
    ELSE LET d == file.data IN
         IF "gerbil" \in DOMAIN d
         THEN [outcome |-> "edited",
               data |-> [d EXCEPT !.gerbil = SetKey(d.gerbil, "start_port", p)]]
         ELSE [outcome |-> "missing", data |-> d]

(* ----------------------------- messages -------------------------------- *)
(* A message is a fixed text followed by an interpolated argument.         *)
Msg(text, arg) == [text |-> text, arg |-> arg]
NoMsg == Msg("", <<>>)
StopFailedMsg == Msg("Failed to stop containers", <<>>)
ComposeFailedMsg == Msg("Failed to update docker-compose.yml", <<>>)
ConfigFailedMsg == Msg("Failed to update config.yml", <<>>)
StartFailedMsg == Msg("Failed to start containers", <<>>)
SuccessMsgOffByOne(p) == [text |-> "Pangolin restarted successfully with port ",
                          arg |-> IntToStr(p + 1)]
SuccessMsg(p) == Msg("Pangolin restarted successfully with port ", IntToStr(p))
RestartFailedMsg(detail) == Msg("Restart failed: ", detail)
EmptyRangeDetail == <<"empty range for randrange()">>
TypeErrorDetail == <<"'NoneType' object is not subscriptable">>
InvalidCommandMsg == Msg("Invalid command. Expected 'restart_pangolin'", <<>>)

Outcome(success, message) == [success |-> success, message |-> message]
NoOutcome == Outcome(FALSE, NoMsg)

Response(code, status, message) == [code |-> code, status |-> status, message |-> message]
NoResponse == Response(0, "", NoMsg)

(* ---------------------------- run_command ------------------------------ *)
(* What subprocess.run meets: the command exits with 0, exits with another *)
(* code, cannot be launched (an exception other than TimeoutExpired), or   *)
(* outlives CONFIG["docker"]["timeout"].                                   *)
CommandOutcomes == {"exit_zero", "exit_nonzero", "launch_error", "timeout"}

ProcessResult(succeeded, stdout, stderr) ==
    [succeeded |-> succeeded, stdout |-> stdout, stderr |-> stderr]

run_command_ignoring_returncode(outcome) ==
    CASE outcome = "exit_zero" -> ProcessResult(TRUE, "output", "")
      [] outcome = "exit_nonzero" -> ProcessResult(TRUE, "output", "error output")
      [] outcome = "launch_error" -> ProcessResult(FALSE, "", "launch error")
      [] outcome = "timeout" -> ProcessResult(FALSE, "", "Command timed out")

run_command(outcome) ==
    CASE outcome = "exit_zero" -> ProcessResult(TRUE, "output", "")
      [] outcome = "exit_nonzero" -> ProcessResult(FALSE, "output", "error output")
      [] outcome = "launch_error" -> ProcessResult(FALSE, "", "launch error")
      [] outcome = "timeout" -> ProcessResult(FALSE, "", "Command timed out")

Ran(outcome, returned) == [outcome |-> outcome, returned |-> returned]
NoProc == Ran("none", ProcessResult(FALSE, "", ""))

(* ------------------------------- state --------------------------------- *)
VARIABLES
    CONFIG,          \* the live global configuration
    restart_lock,    \* holder of restart_lock, NoOne when free
    compose_file,    \* docker-compose.yml on disk
    config_file,     \* config/config.yml on disk
    containers,      \* "up" or "down"
    pc,              \* position of each request's handler thread
    command,         \* the command each request carries
    new_port,        \* restart_pangolin's local new_port
    data,            \* the document an edit holds in memory
    result,          \* (success, message) returned by restart_pangolin
    response,        \* the HTTP response of each request
    attempt,         \* history: steps each request's restart has performed
    before,          \* history: the two files when the attempt began
    accessing,       \* history: the request that made the latest file access
    superseded,      \* history: unfinished requests whose file accesses were
                     \*          followed by another request's
    left,            \* history: the two files at the last lock release
    proc,            \* what run_command last met and returned, per request
    sudo_used,       \* history: the sudo prefixes an attempt has used
    config_doc,      \* the configuration file given to validate_config.py
    validated        \* what validate_config found and returned

vars == << CONFIG, restart_lock, compose_file, config_file, containers, pc,
           command, new_port, data, result, response, attempt, before,
           accessing, superseded, left,
           proc, sudo_used, config_doc, validated >>

\* the state of the validation tool, which the service never touches
validator == << config_doc, validated >>
NoDocument == EmptyMap
Validation(ran, errors, warnings, returned) ==
    [ran |-> ran, errors |-> errors, warnings |-> warnings, returned |-> returned]
NotValidated == Validation(FALSE, {}, {}, FALSE)
ValidatorIdle == config_doc = NoDocument /\ validated = NotValidated

Disk == [compose |-> compose_file, config |-> config_file]
NoSnapshot == [compose |-> NullFile, config |-> NullFile]

InSequence == {"generate", "stop", "compose_read", "compose_write",
               "config_read", "config_write", "start", "respond"}

PortRanges == { [min |-> lo, max |-> hi] : lo \in Ports, hi \in Ports }
DefaultDocker == [use_sudo |-> TRUE]
DefaultPangolin == [docker_compose_file |-> <<"docker-compose.yml">>,
                    config_file |-> <<"config/config.yml">>]
\* JSON null, and the test isinstance(v, dict)
Null == [json_null |-> TRUE]
IsDict(v) == v # Null
\* the "docker" sections of a configuration file the service starts with
DockerSections == { [use_sudo |-> TRUE], [use_sudo |-> FALSE] }
Configs == { [port_range |-> pr, docker |-> DefaultDocker,
              pangolin |-> DefaultPangolin] : pr \in PortRanges }


Init ==
    /\ CONFIG \in Configs
    /\ restart_lock = NoOne
    /\ compose_file \in InitManifests
    /\ config_file \in InitAppConfigs
    /\ containers = "up"
    /\ pc = [r \in Requests |-> "idle"]
    /\ command = [r \in Requests |-> ""]
    /\ new_port = [r \in Requests |-> 0]
    /\ data = [r \in Requests |-> EmptyMap]
    /\ result = [r \in Requests |-> NoOutcome]
    /\ response = [r \in Requests |-> NoResponse]
    /\ attempt = [r \in Requests |-> <<>>]
    /\ before = [r \in Requests |-> NoSnapshot]
    /\ accessing = NoOne
    /\ superseded = {}
    /\ left = Disk
    /\ proc = [r \in Requests |-> NoProc]
    /\ sudo_used = [r \in Requests |-> <<>>]
    /\ ValidatorIdle

(* ---------------------------- POST /restart ---------------------------- *)
Step(name, ok) == [step |-> name, ok |-> ok]
Record(r, name, ok) == attempt' = [attempt EXCEPT ![r] = Append(@, Step(name, ok))]

\* history of a file access by r
Access(r) ==
    /\ accessing' = r
    /\ superseded' = IF accessing \in {r, NoOne} THEN superseded
                     ELSE superseded \cup {accessing}

LockAlwaysAvailable(r) == TRUE

\* `with restart_lock:` blocks until the lock is free
LockAvailable(r) == restart_lock = NoOne

\* a request reaches handle_restart; requests are numbered as they arrive
Arrive(r, cmd) ==
    /\ pc[r] = "idle"
    /\ \A q \in Requests : q < r => pc[q] # "idle"
    /\ pc' = [pc EXCEPT ![r] = "waiting"]
    /\ command' = [command EXCEPT ![r] = cmd]
    /\ UNCHANGED << CONFIG, restart_lock, compose_file, config_file, containers,
                    new_port, data, result, response, attempt, before,
                    accessing, superseded, left,
                    proc, sudo_used >>
    /\ UNCHANGED validator

AcquireLock(r) ==
    /\ pc[r] = "waiting"
    /\ LockAvailable(r)
    /\ restart_lock' = r
    /\ pc' = [pc EXCEPT ![r] = "check"]
    /\ UNCHANGED << CONFIG, compose_file, config_file, containers, command,
                    new_port, data, result, response, attempt, before,
                    accessing, superseded, left,
                    proc, sudo_used >>
    /\ UNCHANGED validator

ReleaseNever(r) == restart_lock

\* leaving the `with` block releases the lock
Release(r) == IF restart_lock = r THEN NoOne ELSE restart_lock

CheckCommand(r) ==
    /\ pc[r] = "check"
    /\ IF command[r] # "restart_pangolin"
       THEN /\ response' = [response EXCEPT ![r] =
                               Response(HTTP_BAD_REQUEST, "", InvalidCommandMsg)]
            /\ pc' = [pc EXCEPT ![r] = "responded"]
       ELSE /\ pc' = [pc EXCEPT ![r] = "generate"]
            /\ UNCHANGED response
    /\ UNCHANGED << CONFIG, restart_lock, compose_file, config_file, containers,
                    command, new_port, data, result, attempt, before, accessing,
                    superseded, left,
                    proc, sudo_used >>
    /\ UNCHANGED validator

Goto(r, nxt) ==
    /\ pc' = [pc EXCEPT ![r] = nxt.pc]
    /\ result' = [result EXCEPT ![r] = nxt.result]

ExceptionEscapes(detail) ==
    [pc |-> "respond", result |-> Outcome(FALSE, Msg("Internal server error: ", detail))]

\* `except Exception as e` of restart_pangolin
ExceptClause(detail) ==
    [pc |-> "respond", result |-> Outcome(FALSE, RestartFailedMsg(detail))]

randrange(lo, hi) == lo..(hi - 1)

\* random.randint(lo, hi): the values it can return (none: ValueError)
randint(lo, hi) == lo..hi

AfterGenerateIgnoringFailure(ok) == [pc |-> "stop", result |-> NoOutcome]

AfterGenerate(ok) == IF ok THEN [pc |-> "stop", result |-> NoOutcome]
                     ELSE ExceptClause(EmptyRangeDetail)

\* new_port = generate_random_port(); random.randint raises on an empty range
GeneratePort(r) ==
    /\ pc[r] = "generate"
    /\ before' = [before EXCEPT ![r] = Disk]
    /\ LET choices == randint(CONFIG.port_range.min, CONFIG.port_range.max) IN
       IF choices # {}
       THEN /\ \E p \in choices : new_port' = [new_port EXCEPT ![r] = p]
            /\ Record(r, "allocate", TRUE)
            /\ Goto(r, AfterGenerate(TRUE))
       ELSE /\ Record(r, "allocate", FALSE)
            /\ Goto(r, AfterGenerate(FALSE))
            /\ UNCHANGED new_port
    /\ UNCHANGED << CONFIG, restart_lock, compose_file, config_file, containers,
                    command, data, response, accessing, superseded, left,
                    proc, sudo_used >>
    /\ UNCHANGED validator

AfterStopIgnoringFailure(ok) == [pc |-> "compose_read", result |-> NoOutcome]
AfterComposeIgnoringFailure(ok) == [pc |-> "config_read", result |-> NoOutcome]
AfterConfigIgnoringFailure(ok) == [pc |-> "start", result |-> NoOutcome]

\* where restart_pangolin goes after a step, and what it returns
AfterStop(ok) == IF ok THEN [pc |-> "compose_read", result |-> NoOutcome]
                 ELSE [pc |-> "respond", result |-> Outcome(FALSE, StopFailedMsg)]
AfterCompose(ok) == IF ok THEN [pc |-> "config_read", result |-> NoOutcome]
                    ELSE [pc |-> "respond", result |-> Outcome(FALSE, ComposeFailedMsg)]
AfterConfig(ok) == IF ok THEN [pc |-> "start", result |-> NoOutcome]
                   ELSE [pc |-> "respond", result |-> Outcome(FALSE, ConfigFailedMsg)]
AfterStart(ok, p) == IF ok THEN [pc |-> "respond", result |-> Outcome(TRUE, SuccessMsg(p))]
                     ELSE [pc |-> "respond", result |-> Outcome(FALSE, StartFailedMsg)]

\* the containers after a docker compose command meant to bring them to
\* `target`: a command that was not launched changes nothing, one that failed
\* or was cut off may or may not have taken effect
ContainersAfter(outcome, target) ==
    CASE outcome = "exit_zero" -> {target}
      [] outcome = "launch_error" -> {containers}
      [] OTHER -> {containers, target}

SudoPrefix(docker) == IF docker.use_sudo THEN "sudo " ELSE ""

\* stop_containers(): `docker compose down` through run_command; the lookup
\* CONFIG["docker"]["use_sudo"] raises TypeError when the section is null
StopContainers(r) ==
    /\ pc[r] = "stop"
    /\ IF IsDict(CONFIG.docker)
       THEN /\ sudo_used' = [sudo_used EXCEPT ![r] = Append(@, SudoPrefix(CONFIG.docker))]
            /\ \E outcome \in CommandOutcomes :
                 LET returned == run_command(outcome) IN
                 /\ proc' = [proc EXCEPT ![r] = Ran(outcome, returned)]
                 /\ Record(r, "stop", returned.succeeded)
                 /\ Goto(r, AfterStop(returned.succeeded))
                 /\ containers' \in ContainersAfter(outcome, "down")
       ELSE /\ Record(r, "stop_lookup", FALSE)
            /\ Goto(r, ExceptClause(TypeErrorDetail))
            /\ UNCHANGED << containers, proc, sudo_used >>
    /\ UNCHANGED << CONFIG, restart_lock, compose_file, config_file, command,
                    new_port, data, response, before, accessing, superseded, left >>
    /\ UNCHANGED validator

\* update_docker_compose_port: the path is looked up in CONFIG["pangolin"]
\* outside the try block (TypeError when the section is null); then
\* open(..., 'r'), safe_load, edit in memory
ComposeRead(r) ==
    /\ pc[r] = "compose_read"
    /\ IF ~IsDict(CONFIG.pangolin)
       THEN /\ Record(r, "compose_lookup", FALSE)
            /\ Goto(r, ExceptClause(TypeErrorDetail))
            /\ UNCHANGED << data, accessing, superseded >>
       ELSE \E opened \in BOOLEAN :
         IF opened
         THEN /\ Access(r)
              /\ LET e == ComposeEdit(compose_file, new_port[r]) IN
                 IF e.raised
                 THEN /\ Record(r, "compose_read", FALSE)
                      /\ Goto(r, AfterCompose(FALSE))
                      /\ UNCHANGED data
                 ELSE /\ Record(r, "compose_read", TRUE)
                      /\ data' = [data EXCEPT ![r] = e.data]
                      /\ pc' = [pc EXCEPT ![r] = "compose_write"]
                      /\ UNCHANGED result
         ELSE /\ Record(r, "compose_read", FALSE)
              /\ Goto(r, AfterCompose(FALSE))
              /\ UNCHANGED << data, accessing, superseded >>
    /\ UNCHANGED << CONFIG, restart_lock, compose_file, config_file, containers,
                    command, new_port, response, before, left,
                    proc, sudo_used >>
    /\ UNCHANGED validator

\* update_docker_compose_port: open(..., 'w'), yaml.dump
ComposeWrite(r) ==
    /\ pc[r] = "compose_write"
    /\ \E opened \in BOOLEAN :
         IF opened
         THEN /\ compose_file' = MappingFile(data[r])
              /\ Access(r)
              /\ Record(r, "compose_write", TRUE)
              /\ Goto(r, AfterCompose(TRUE))
         ELSE /\ Record(r, "compose_write", FALSE)
              /\ Goto(r, AfterCompose(FALSE))
              /\ UNCHANGED << compose_file, accessing, superseded >>
    /\ UNCHANGED << CONFIG, restart_lock, config_file, containers, command,
                    new_port, data, response, before, left,
                    proc, sudo_used >>
    /\ UNCHANGED validator

\* update_config_port: path lookup outside the try block, then
\* open(..., 'r'), safe_load, edit in memory
ConfigRead(r) ==
    /\ pc[r] = "config_read"
    /\ IF ~IsDict(CONFIG.pangolin)
       THEN /\ Record(r, "config_lookup", FALSE)
            /\ Goto(r, ExceptClause(TypeErrorDetail))
            /\ UNCHANGED << data, accessing, superseded >>
       ELSE \E opened \in BOOLEAN :
         IF opened
         THEN /\ Access(r)
              /\ LET e == ConfigEdit(config_file, new_port[r]) IN
                 IF e.outcome = "edited"
                 THEN /\ Record(r, "config_read", TRUE)
                      /\ data' = [data EXCEPT ![r] = e.data]
                      /\ pc' = [pc EXCEPT ![r] = "config_write"]
                      /\ UNCHANGED result
                 ELSE /\ Record(r, "config_read", FALSE)
                      /\ Goto(r, AfterConfig(FALSE))
                      /\ UNCHANGED data
         ELSE /\ Record(r, "config_read", FALSE)
              /\ Goto(r, AfterConfig(FALSE))
              /\ UNCHANGED << data, accessing, superseded >>
    /\ UNCHANGED << CONFIG, restart_lock, compose_file, config_file, containers,
                    command, new_port, response, before, left,
                    proc, sudo_used >>
    /\ UNCHANGED validator

\* update_config_port: open(..., 'w'), yaml.dump
ConfigWrite(r) ==
    /\ pc[r] = "config_write"
    /\ \E opened \in BOOLEAN :
         IF opened
         THEN /\ config_file' = MappingFile(data[r])
              /\ Access(r)
              /\ Record(r, "config_write", TRUE)
              /\ Goto(r, AfterConfig(TRUE))
         ELSE /\ Record(r, "config_write", FALSE)
              /\ Goto(r, AfterConfig(FALSE))
              /\ UNCHANGED << config_file, accessing, superseded >>
    /\ UNCHANGED << CONFIG, restart_lock, compose_file, containers, command,
                    new_port, data, response, before, left,
                    proc, sudo_used >>
    /\ UNCHANGED validator

\* start_containers(): `docker compose up -d` through run_command
StartContainers(r) ==
    /\ pc[r] = "start"
    /\ IF IsDict(CONFIG.docker)
       THEN /\ sudo_used' = [sudo_used EXCEPT ![r] = Append(@, SudoPrefix(CONFIG.docker))]
            /\ \E outcome \in CommandOutcomes :
                 LET returned == run_command(outcome) IN
                 /\ proc' = [proc EXCEPT ![r] = Ran(outcome, returned)]
                 /\ Record(r, "start", returned.succeeded)
                 /\ Goto(r, AfterStart(returned.succeeded, new_port[r]))
                 /\ containers' \in ContainersAfter(outcome, "up")
       ELSE /\ Record(r, "start_lookup", FALSE)
            /\ Goto(r, ExceptClause(TypeErrorDetail))
            /\ UNCHANGED << containers, proc, sudo_used >>
    /\ UNCHANGED << CONFIG, restart_lock, compose_file, config_file, command,
                    new_port, data, response, before, accessing, superseded, left >>
    /\ UNCHANGED validator

ResponseAlwaysOk(o) == Response(HTTP_OK, "success", o.message)

\* handle_restart turns the outcome into the response
ResponseOf(o) == IF o.success THEN Response(HTTP_OK, "success", o.message)
                 ELSE Response(HTTP_SERVER_ERROR, "error", o.message)

Respond(r) ==
    /\ pc[r] = "respond"
    /\ response' = [response EXCEPT ![r] = ResponseOf(result[r])]
    /\ pc' = [pc EXCEPT ![r] = "responded"]
    /\ proc' = [proc EXCEPT ![r] = NoProc]
    /\ UNCHANGED << CONFIG, restart_lock, compose_file, config_file, containers,
                    command, new_port, data, result, attempt, before, accessing,
                    superseded, left, sudo_used >>
    /\ UNCHANGED validator

\* the return leaves the `with` block: the lock is released, the response is
\* sent, and the request with its locals (and the history of its attempt) is
\* gone
Leave(r) ==
    /\ pc[r] = "responded"
    /\ restart_lock' = Release(r)
    /\ left' = Disk
    /\ pc' = [pc EXCEPT ![r] = "done"]
    /\ command' = [command EXCEPT ![r] = ""]
    /\ new_port' = [new_port EXCEPT ![r] = 0]
    /\ data' = [data EXCEPT ![r] = EmptyMap]
    /\ result' = [result EXCEPT ![r] = NoOutcome]
    /\ response' = [response EXCEPT ![r] = NoResponse]
    /\ attempt' = [attempt EXCEPT ![r] = <<>>]
    /\ before' = [before EXCEPT ![r] = NoSnapshot]
    /\ accessing' = IF accessing = r THEN NoOne ELSE accessing
    /\ superseded' = superseded \ {r}
    /\ proc' = [proc EXCEPT ![r] = NoProc]
    /\ sudo_used' = [sudo_used EXCEPT ![r] = <<>>]
    /\ UNCHANGED << CONFIG, compose_file, config_file, containers >>
    /\ UNCHANGED validator

(* ----------------------------- POST /config ---------------------------- *)
\* the posted JSON sets one bound of the port range
PartialRanges == UNION { [{key} -> Ports] : key \in {"min", "max"} }
Patches == { [port_range |-> f] : f \in PartialRanges }
DockerPatches == { [docker |-> [use_sudo |-> b]] : b \in BOOLEAN }
                     \cup { [docker |-> Null] }
SectionPatches == DockerPatches \cup { [pangolin |-> Null] }

MergeSection(target, source) ==
    [k \in DOMAIN target \cup DOMAIN source |->
        IF k \in DOMAIN source THEN source[k] ELSE target[k]]

\* deep_merge: nested dicts are merged key by key, other values replaced
deep_merge(target, source) ==
    [k \in DOMAIN target \cup DOMAIN source |->
        IF k \in DOMAIN source
        THEN IF k \in DOMAIN target /\ IsDict(target[k]) /\ IsDict(source[k])
             THEN MergeSection(target[k], source[k])
             ELSE source[k]
        ELSE target[k]]

update_config(patch) ==
    /\ CONFIG' = deep_merge(CONFIG, patch)
    /\ UNCHANGED << restart_lock, compose_file, config_file, containers, pc,
                    command, new_port, data, result, response, attempt, before,
                    accessing, superseded, left,
                    proc, sudo_used >>
    /\ UNCHANGED validator

(* --------------------------- specification ----------------------------- *)
Next ==
    \/ \E r \in Requests, cmd \in Commands : Arrive(r, cmd)
    \/ \E r \in Requests : AcquireLock(r)
    \/ \E r \in Requests : CheckCommand(r)
    \/ \E r \in Requests : GeneratePort(r)
    \/ \E r \in Requests : StopContainers(r)
    \/ \E r \in Requests : ComposeRead(r)
    \/ \E r \in Requests : ComposeWrite(r)
    \/ \E r \in Requests : ConfigRead(r)
    \/ \E r \in Requests : ConfigWrite(r)
    \/ \E r \in Requests : StartContainers(r)
    \/ \E r \in Requests : Respond(r)
    \/ \E r \in Requests : Leave(r)
    \/ \E patch \in Patches : update_config(patch)

Spec == Init /\ [][Next]_vars

(* The service on the standard files, started from a configuration file    *)
(* with any "docker" section, with POST /config also setting use_sudo.     *)
FullRange == [min |-> PortBase, max |-> PortBase + PortSpan]
EmptyRange == [min |-> PortBase + PortSpan, max |-> PortBase]

InitAnyDocker ==
    \E pr \in {FullRange, EmptyRange}, d \in DockerSections :
        /\ CONFIG = [port_range |-> pr, docker |-> d, pangolin |-> DefaultPangolin]
        /\ restart_lock = NoOne
        /\ compose_file = ManifestStandard
        /\ config_file = AppConfigStandard
        /\ containers = "up"
        /\ pc = [r \in Requests |-> "idle"]
        /\ command = [r \in Requests |-> ""]
        /\ new_port = [r \in Requests |-> 0]
        /\ data = [r \in Requests |-> EmptyMap]
        /\ result = [r \in Requests |-> NoOutcome]
        /\ response = [r \in Requests |-> NoResponse]
        /\ attempt = [r \in Requests |-> <<>>]
        /\ before = [r \in Requests |-> NoSnapshot]
        /\ accessing = NoOne
        /\ superseded = {}
        /\ left = Disk
        /\ proc = [r \in Requests |-> NoProc]
        /\ sudo_used = [r \in Requests |-> <<>>]
        /\ ValidatorIdle

NextConfig ==
    \/ \E r \in Requests, cmd \in Commands : Arrive(r, cmd)
    \/ \E r \in Requests : AcquireLock(r)
    \/ \E r \in Requests : CheckCommand(r)
    \/ \E r \in Requests : GeneratePort(r)
    \/ \E r \in Requests : StopContainers(r)
    \/ \E r \in Requests : ComposeRead(r)
    \/ \E r \in Requests : ComposeWrite(r)
    \/ \E r \in Requests : ConfigRead(r)
    \/ \E r \in Requests : ConfigWrite(r)
    \/ \E r \in Requests : StartContainers(r)
    \/ \E r \in Requests : Respond(r)
    \/ \E r \in Requests : Leave(r)
    \/ \E patch \in SectionPatches : update_config(patch)

SpecConfig == InitAnyDocker /\ [][NextConfig]_vars

(* The manifest update alone: a restart that has allocated its port and    *)
(* stopped the containers meets a manifest whose gerbil ports are any      *)
(* sequence of at most MaxLen entries.                                     *)
EntryAlphabet ==
    { StrEntry(TcpLiteral),
      StrEntry(TcpLiteral \o UdpMarker),
      StrEntry(WebMapping),
      StrEntry(TcpLiteral \o <<"0">>),
      StrEntry(<<"5", "3", ":", "5", "3", "/", "u", "d", "p">>),
      StrEntry(<<"8", "4", "4", "3", ":", "4", "4", "3">>),
      IntEntry(<<"8", "0", "8", "0">>) }

PortSequences == UNION { [1..n -> EntryAlphabet] : n \in 0..MaxLen }

ManifestWith(ports) ==
    MappingFile([ManifestStandard.data EXCEPT !.services.gerbil.ports = ports])

Editor == CHOOSE r \in Requests : \A q \in Requests : r <= q

InitEdit ==
    /\ CONFIG = [port_range |-> [min |-> PortBase, max |-> PortBase + PortSpan],
                 docker |-> DefaultDocker, pangolin |-> DefaultPangolin]
    /\ restart_lock = Editor
    /\ compose_file \in { ManifestWith(ports) : ports \in PortSequences }
    /\ config_file = AppConfigStandard
    /\ containers = "down"
    /\ pc = [r \in Requests |-> IF r = Editor THEN "compose_read" ELSE "idle"]
    /\ command = [r \in Requests |-> IF r = Editor THEN "restart_pangolin" ELSE ""]
    /\ new_port \in { [r \in Requests |-> IF r = Editor THEN p ELSE 0] : p \in Ports }
    /\ data = [r \in Requests |-> EmptyMap]
    /\ result = [r \in Requests |-> NoOutcome]
    /\ response = [r \in Requests |-> NoResponse]
    /\ attempt = [r \in Requests |-> IF r = Editor
                                      THEN <<Step("allocate", TRUE), Step("stop", TRUE)>>
                                      ELSE <<>>]
    /\ before = [r \in Requests |-> IF r = Editor THEN Disk ELSE NoSnapshot]
    /\ accessing = NoOne
    /\ superseded = {}
    /\ left = Disk
    /\ proc = [r \in Requests |-> NoProc]
    /\ sudo_used = [r \in Requests |-> <<>>]
    /\ ValidatorIdle

NextEdit ==
    \/ ComposeRead(Editor)
    \/ ComposeWrite(Editor)

SpecEdit == InitEdit /\ [][NextEdit]_vars

(* ------------------------------ history -------------------------------- *)
Steps(r) == { attempt[r][i] : i \in 1..Len(attempt[r]) }
Invoked(r, name) == \E e \in Steps(r) : e.step = name
Succeeded(r, name) == Step(name, TRUE) \in Steps(r)
Failed(r, name) == Step(name, FALSE) \in Steps(r)
Returned(r) == pc[r] \in {"respond", "responded"}
Running == { r \in Requests : pc[r] \in InSequence }

(* ------------------------ reading the files --------------------------- *)
HasGerbilPorts(file) ==
    /\ file.syntax = "ok" /\ file.root = "mapping"
    /\ "services" \in DOMAIN file.data
    /\ "gerbil" \in DOMAIN file.data.services
    /\ "ports" \in DOMAIN file.data.services.gerbil
LacksGerbilPorts(file) ==
    /\ file.syntax = "ok" /\ file.root = "mapping"
    /\ ~HasGerbilPorts(file)
GerbilPorts(file) == file.data.services.gerbil.ports

\* the manifest is the standard one up to the gerbil port mappings
FromStandard(file) ==
    /\ HasGerbilPorts(file)
    /\ [file.data EXCEPT !.services.gerbil.ports = StandardPorts] = ManifestStandard.data

\* the gerbil TCP and UDP mappings of the manifest both name port p
ManifestReflects(file, p) ==
    /\ HasGerbilPorts(file)
    /\ Len(GerbilPorts(file)) >= 2
    /\ GerbilPorts(file)[1] = StrEntry(TcpMapping(p))
    /\ GerbilPorts(file)[2] = StrEntry(UdpMapping(p))

StartPortIs(file, p) ==
    /\ file.syntax = "ok" /\ file.root = "mapping"
    /\ "gerbil" \in DOMAIN file.data
    /\ "start_port" \in DOMAIN file.data.gerbil
    /\ file.data.gerbil.start_port = p

(* ------------------------------ claims --------------------------------- *)

\* C1: at most one restart sequence executes at any moment; it belongs to the
\* holder of restart_lock, and a request waiting for the lock has performed
\* no step of its own sequence.
C1_OneRestartAtATime ==
    /\ Cardinality(Running) <= 1
    /\ \A r \in Running : restart_lock = r
    /\ \A r \in Requests : pc[r] \in {"idle", "waiting", "check"} => attempt[r] = <<>>

C1_Witness ==
    \E r1, r2 \in Requests :
        /\ pc[r1] = "config_write"
        /\ pc[r2] = "waiting"
        /\ command[r2] = "restart_pangolin"

\* C2: the file accesses of two restarts are strictly serialized: the owners
\* of successive accesses never alternate, a restart reads each file exactly
\* as the previous lock holder left it, and nothing is written to a file
\* between a restart's read of it and its own write.
C2_SerializedFileAccess ==
    /\ accessing \notin superseded
    /\ \A r \in Requests :
         /\ pc[r] \in {"compose_read", "compose_write"} => compose_file = left.compose
         /\ pc[r] \in {"compose_read", "compose_write", "config_read", "config_write"}
              => config_file = left.config

C2_Witness ==
    \E r1, r2 \in Requests :
        /\ pc[r1] = "done"
        /\ accessing = r2 /\ pc[r2] = "config_write"
        /\ left.compose # ManifestStandard /\ FromStandard(left.compose)
        /\ compose_file # left.compose

\* C3: when a restart returns success on a manifest that began with the
\* gerbil ports "443:443" and "443:443/udp", the manifest's gerbil TCP and
\* UDP mappings and the app config's start port all equal the port this
\* restart allocated.
C3_FilesAgreeAfterSuccess ==
    \A r \in Requests :
        (Returned(r) /\ result[r].success /\ FromStandard(compose_file))
        => /\ ManifestReflects(compose_file, new_port[r])
           /\ StartPortIs(config_file, new_port[r])

FullAttempt == << Step("allocate", TRUE), Step("stop", TRUE),
                  Step("compose_read", TRUE), Step("compose_write", TRUE),
                  Step("config_read", TRUE), Step("config_write", TRUE),
                  Step("start", TRUE) >>

C5_StopFailure ==
    \A r \in Requests :
        Failed(r, "stop")
        => /\ Returned(r)
           /\ result[r] = Outcome(FALSE, StopFailedMsg)
           /\ \A e \in Steps(r) : e.step \in {"allocate", "stop"}
           /\ Disk = before[r]

C5_Witness ==
    \E r \in Requests : Returned(r) /\ Failed(r, "stop") /\ containers = "up"

ComposeFailed(r) == Failed(r, "compose_read") \/ Failed(r, "compose_write")
ConfigFailed(r) == Failed(r, "config_read") \/ Failed(r, "config_write")

\* C6: if stop succeeds and the manifest update fails, restart returns
\* (False, "Failed to update docker-compose.yml"); the app config is neither
\* read nor written, start is not invoked, and the containers are down when
\* the outcome is returned.
C6_ComposeFailure ==
    \A r \in Requests :
        (Succeeded(r, "stop") /\ ComposeFailed(r))
        => /\ Returned(r)
           /\ result[r] = Outcome(FALSE, ComposeFailedMsg)
           /\ \A e \in Steps(r) : e.step \notin {"config_read", "config_write", "start"}
           /\ containers = "down"
           /\ config_file = before[r].config

C6_Witness ==
    \E r \in Requests :
        Returned(r) /\ Succeeded(r, "stop") /\ Failed(r, "compose_write")

\* C7: if stop and the manifest update succeed and the app config update
\* fails, restart returns (False, "Failed to update config.yml"); start is
\* not invoked, the containers are down, the manifest carries the new port
\* and the app config is as it was before the attempt.
C7_ConfigFailure ==
    \A r \in Requests :
        (Returned(r) /\ Succeeded(r, "compose_write") /\ ConfigFailed(r))
        => /\ result[r] = Outcome(FALSE, ConfigFailedMsg)
           /\ ~Invoked(r, "start")
           /\ containers = "down"
           /\ ManifestReflects(compose_file, new_port[r])
           /\ config_file = before[r].config

\* C8: if stop and both edits succeed and start fails, restart returns
\* (False, "Failed to start containers") and both files reflect the newly
\* allocated port.
C8_StartFailure ==
    \A r \in Requests :
        (Returned(r) /\ Failed(r, "start"))
        => /\ result[r] = Outcome(FALSE, StartFailedMsg)
           /\ ManifestReflects(compose_file, new_port[r])
           /\ StartPortIs(config_file, new_port[r])

\* C9: on a manifest without services.gerbil, or whose gerbil service has no
\* ports, the manifest update reports failure without writing, so the
\* restart ends with "Failed to update docker-compose.yml" and goes no
\* further.
C9_MissingGerbilFails ==
    \A r \in Requests :
        (Invoked(r, "compose_read") /\ LacksGerbilPorts(before[r].compose))
        => /\ Returned(r)
           /\ result[r] = Outcome(FALSE, ComposeFailedMsg)
           /\ \A e \in Steps(r) : e.step \notin {"compose_write", "config_read",
                                                  "config_write", "start"}

\* C10: the manifest update keeps the length and order of the gerbil ports;
\* an entry containing "/udp" becomes "p:p/udp", an entry starting with
\* "443:443" and not containing "/udp" becomes "p:p", every other entry is
\* kept as it is, and the rest of the manifest is unchanged.
C10_RewriteRule ==
    \A r \in Requests :
        (pc[r] = "config_read" /\ Succeeded(r, "compose_write")
           /\ HasGerbilPorts(before[r].compose))
        => /\ HasGerbilPorts(compose_file)
           /\ LET old == GerbilPorts(before[r].compose)
                  new == GerbilPorts(compose_file)
                  p == new_port[r]
                  IsUdp(e) == e.kind = "str" /\ Contains(e.val, UdpMarker)
                  IsTcp(e) == e.kind = "str" /\ ~Contains(e.val, UdpMarker)
                                /\ StartsWith(e.val, TcpLiteral)
              IN /\ Len(new) = Len(old)
                 /\ \A i \in 1..Len(old) :
                      /\ IsUdp(old[i]) => new[i] = StrEntry(UdpMapping(p))
                      /\ IsTcp(old[i]) => new[i] = StrEntry(TcpMapping(p))
                      /\ (~IsUdp(old[i]) /\ ~IsTcp(old[i])) => new[i] = old[i]
                 /\ [compose_file.data EXCEPT !.services.gerbil.ports = old]
                      = before[r].compose.data

C10_Witness ==
    \E r \in Requests :
        /\ pc[r] = "config_read" /\ Succeeded(r, "compose_write")
        /\ HasGerbilPorts(before[r].compose)
        /\ GerbilPorts(before[r].compose)
             = << StrEntry(TcpLiteral \o UdpMarker), StrEntry(TcpLiteral \o <<"0">>) >>
        /\ GerbilPorts(compose_file)
             = << StrEntry(UdpMapping(new_port[r])), StrEntry(TcpMapping(new_port[r])) >>

HasGerbil(file) ==
    /\ file.syntax = "ok" /\ file.root = "mapping"
    /\ "gerbil" \in DOMAIN file.data
LacksGerbil(file) ==
    /\ file.syntax = "ok" /\ file.root = "mapping"
    /\ "gerbil" \notin DOMAIN file.data

\* C11: on a document with a gerbil object the app config update sets its
\* start port to the target port, keeps every other field and reports
\* success; on a document without a gerbil key it reports failure and writes
\* nothing, so the file is unchanged.
C11_ConfigEditRule ==
    \A r \in Requests :
        /\ Succeeded(r, "config_write")
           => /\ pc[r] \in {"start", "respond", "responded"}
              /\ result[r] # Outcome(FALSE, ConfigFailedMsg)
              /\ HasGerbil(before[r].config) /\ HasGerbil(config_file)
              /\ LET old == before[r].config.data
                     new == config_file.data
                 IN /\ DOMAIN new = DOMAIN old
                    /\ \A k \in DOMAIN old \ {"gerbil"} : new[k] = old[k]
                    /\ DOMAIN new.gerbil = DOMAIN old.gerbil \cup {"start_port"}
                    /\ \A k \in DOMAIN old.gerbil \ {"start_port"} :
                          new.gerbil[k] = old.gerbil[k]
                    /\ new.gerbil.start_port = new_port[r]
        /\ (Invoked(r, "config_read") /\ LacksGerbil(before[r].config))
           => /\ Returned(r)
              /\ result[r] = Outcome(FALSE, ConfigFailedMsg)
              /\ ~Invoked(r, "config_write")
              /\ config_file = before[r].config

C11_Witness ==
    \E r \in Requests :
        /\ pc[r] = "start" /\ Succeeded(r, "config_write")
        /\ before[r].config = AppConfigStandard
        /\ config_file # AppConfigStandard
        /\ config_file.data.gerbil.base_endpoint = "example.com"

\* C12: a POST /restart whose command is not "restart_pangolin" is answered
\* 400 without any step of the restart; with the right command the answer is
\* 200 "success" exactly when the restart outcome is success and 500 "error"
\* for every other outcome, carrying the outcome's message.
C12_ResponseCodes ==
    \A r \in Requests :
        /\ pc[r] \in InSequence => command[r] = "restart_pangolin"
        /\ (pc[r] = "responded" /\ command[r] # "restart_pangolin")
           => /\ response[r].code = HTTP_BAD_REQUEST
              /\ attempt[r] = <<>>
              /\ new_port[r] = 0
              /\ Disk = left
        /\ (pc[r] = "responded" /\ command[r] = "restart_pangolin")
           => /\ attempt[r] # <<>>
              /\ response[r].message = result[r].message
              /\ result[r].success
                   => (response[r].code = HTTP_OK /\ response[r].status = "success")
              /\ ~result[r].success
                   => (response[r].code = HTTP_SERVER_ERROR /\ response[r].status = "error")

C12_Witness ==
    \E r1, r2 \in Requests :
        /\ pc[r1] = "responded" /\ result[r1] = Outcome(FALSE, StartFailedMsg)
        /\ response[r1].code = HTTP_SERVER_ERROR
        /\ pc[r2] = "waiting" /\ command[r2] = "invalid_command"

(* ------------------------------- C13 ----------------------------------- *)
\* the steps at which a lookup in CONFIG raises out of its function
FaultSteps == {"stop_lookup", "compose_lookup", "config_lookup", "start_lookup"}
Faulted(r) == Failed(r, "allocate") \/ \E name \in FaultSteps : Failed(r, name)
FaultDetail(r) == IF Failed(r, "allocate") THEN EmptyRangeDetail ELSE TypeErrorDetail

C13_Converted ==
    \A r \in Requests :
        Faulted(r) =>
            /\ Returned(r)
            /\ restart_lock = r
            /\ result[r] = Outcome(FALSE, RestartFailedMsg(FaultDetail(r)))
            /\ pc[r] = "responded" =>
                   response[r] = Response(HTTP_SERVER_ERROR, "error",
                                          RestartFailedMsg(FaultDetail(r)))

C13_Released ==
    \A r \in Requests :
        Faulted(r) /\ pc'[r] # pc[r] /\ pc[r] = "responded" =>
            pc'[r] = "done" /\ restart_lock' = NoOne

InitLive ==
    \E pr \in {FullRange, EmptyRange} :
        /\ CONFIG = [port_range |-> pr, docker |-> DefaultDocker,
                     pangolin |-> DefaultPangolin]
        /\ restart_lock = NoOne
        /\ compose_file = ManifestStandard
        /\ config_file = AppConfigStandard
        /\ containers = "up"
        /\ pc = [r \in Requests |-> "idle"]
        /\ command = [r \in Requests |-> ""]
        /\ new_port = [r \in Requests |-> 0]
        /\ data = [r \in Requests |-> EmptyMap]
        /\ result = [r \in Requests |-> NoOutcome]
        /\ response = [r \in Requests |-> NoResponse]
        /\ attempt = [r \in Requests |-> <<>>]
        /\ before = [r \in Requests |-> NoSnapshot]
        /\ accessing = NoOne
        /\ superseded = {}
        /\ left = Disk
        /\ proc = [r \in Requests |-> NoProc]
        /\ sudo_used = [r \in Requests |-> <<>>]
        /\ ValidatorIdle

\* the steps of the thread that serves request r
Handle(r) ==
    \/ AcquireLock(r)
    \/ CheckCommand(r)
    \/ GeneratePort(r)
    \/ StopContainers(r)
    \/ ComposeRead(r)
    \/ ComposeWrite(r)
    \/ ConfigRead(r)
    \/ ConfigWrite(r)
    \/ StartContainers(r)
    \/ Respond(r)
    \/ Leave(r)

NextLive ==
    \/ \E r \in Requests, cmd \in Commands : Arrive(r, cmd)
    \/ \E r \in Requests : Handle(r)

FairScheduling == \A r \in Requests : WF_vars(Handle(r))

SpecLive == InitLive /\ [][NextLive]_vars /\ FairScheduling

\* C14: under fair scheduling every request that has arrived is eventually
\* answered and leaves its handler, and whoever holds the restart lock
\* eventually gives it up, whichever way the handler exits.
C14_EveryRequestAnswered ==
    \A r \in Requests :
        /\ (pc[r] = "waiting") ~> (pc[r] = "responded")
        /\ (pc[r] = "waiting") ~> (pc[r] = "done")
        /\ (restart_lock = r) ~> (restart_lock # r)

\* a request is blocked on the lock while the holder has caught an exception
\* and has not left yet
C14_Witness ==
    \E r, q \in Requests :
        /\ pc[q] = "waiting"
        /\ restart_lock = r
        /\ pc[r] = "responded"
        /\ Faulted(r)

(* ------------------------------- C15 ----------------------------------- *)
LastStep(r) == attempt[r][Len(attempt[r])]
\* stop_containers or start_containers has just returned to restart_pangolin
CommandReturned(r) ==
    /\ attempt[r] # << >>
    /\ LastStep(r).step \in {"stop", "start"}
    /\ pc[r] \in {"compose_read", "respond"}

\* C15: run_command returns a result for every way the command can end and
\* never raises: succeeded is true exactly for a zero exit; a timeout gives
\* empty stdout and "Command timed out" as stderr; stop_containers and
\* start_containers hand that flag to restart_pangolin unchanged, which never
\* sees an exception from them.
C15_RunCommandNeverRaises ==
    \A r \in Requests :
        /\ CommandReturned(r) =>
              /\ proc[r] # NoProc
              /\ LastStep(r).ok = proc[r].returned.succeeded
              /\ ~Faulted(r)
        /\ proc[r] # NoProc =>
              /\ proc[r].outcome \in CommandOutcomes
              /\ proc[r].returned.succeeded = (proc[r].outcome = "exit_zero")
              /\ proc[r].outcome = "timeout" =>
                     /\ proc[r].returned.stdout = ""
                     /\ proc[r].returned.stderr = "Command timed out"

\* start_containers has returned False after the command timed out
C15_Witness ==
    \E r \in Requests :
        /\ CommandReturned(r)
        /\ Failed(r, "start")
        /\ proc[r].outcome = "timeout"
        /\ proc[r].returned = ProcessResult(FALSE, "", "Command timed out")

(* ------------------------------- C16 ----------------------------------- *)
\* the range in force: CONFIG as generate_random_port reads it
RangeInForce == CONFIG.port_range.min .. CONFIG.port_range.max

C16_InRange ==
    \A r \in Requests :
        pc[r] = "generate" /\ pc'[r] # "generate" =>
            IF CONFIG.port_range.min <= CONFIG.port_range.max
            THEN /\ pc'[r] = "stop"
                 /\ new_port'[r] \in RangeInForce
                 /\ attempt'[r] = << Step("allocate", TRUE) >>
            ELSE /\ pc'[r] = "respond"
                 /\ new_port'[r] = new_port[r]
                 /\ attempt'[r] = << Step("allocate", FALSE) >>
                 /\ result'[r] = Outcome(FALSE, RestartFailedMsg(EmptyRangeDetail))

C16_EveryValue ==
    \A r \in Requests :
        pc[r] = "generate" =>
            \A p \in RangeInForce : ENABLED (GeneratePort(r) /\ new_port'[r] = p)

\* C16: the allocation of a restart returns a port of the range CONFIG holds
\* when it is made, every port of that range can be the one returned, and on
\* a range with min > max it returns no port: random.randint raises and the
\* attempt ends with "Restart failed: ...".
C16_AllocationInRange == []C16_EveryValue /\ [][C16_InRange]_vars

\* the upper end of a range of more than one port has been allocated
C16_Witness ==
    \E r \in Requests :
        /\ pc[r] = "stop"
        /\ CONFIG.port_range.min < CONFIG.port_range.max
        /\ new_port[r] = CONFIG.port_range.max

(* ------------------------------- C17 ----------------------------------- *)
\* the steps of restart_pangolin in the order of its statements
StepOrder == << "allocate", "stop", "compose_read", "compose_write",
                "config_read", "config_write", "start" >>
\* a CONFIG lookup that raises takes the place of the step it belongs to
LookupOf(name) ==
    CASE name = "stop" -> "stop_lookup"
      [] name \in {"compose_read", "compose_write"} -> "compose_lookup"
      [] name \in {"config_read", "config_write"} -> "config_lookup"
      [] name = "start" -> "start_lookup"
      [] OTHER -> name

InOrder(r) ==
    /\ Len(attempt[r]) <= Len(StepOrder)
    /\ \A i \in 1..Len(attempt[r]) :
          IF i < Len(attempt[r])
          THEN attempt[r][i] = Step(StepOrder[i], TRUE)
          ELSE attempt[r][i].step \in {StepOrder[i], LookupOf(StepOrder[i])}

Stopped(r) ==
    /\ restart_lock = r
    /\ Succeeded(r, "stop")
    /\ ~Invoked(r, "start")
    /\ containers = "down"

C17_Order ==
    \A r \in Requests :
        /\ InOrder(r)
        /\ pc[r] = "compose_write" => Stopped(r)
        /\ pc[r] = "config_write" => Stopped(r) /\ Succeeded(r, "compose_write")
        /\ Invoked(r, "start") =>
              /\ Succeeded(r, "stop")
              /\ Succeeded(r, "compose_write")
              /\ Succeeded(r, "config_write")

C17_Writes ==
    /\ compose_file' # compose_file =>
          \E r \in Requests : pc[r] = "compose_write" /\ Stopped(r)
    /\ config_file' # config_file =>
          \E r \in Requests :
              pc[r] = "config_write" /\ Stopped(r) /\ Succeeded(r, "compose_write")

\* C17: the steps of an attempt are taken in the order allocate, stop, manifest
\* edit, app config edit, start, each only after the one before it succeeded;
\* a file is written only by the lock holder after its stop succeeded (and, for
\* the app config, after the manifest was written) and before it invokes
\* start, with the containers down.
C17_StepOrder == []C17_Order /\ [][C17_Writes]_vars

\* the app config is about to be written: stop and the manifest edit have
\* succeeded and the containers are down
C17_Witness ==
    \E r \in Requests :
        /\ pc[r] = "config_write"
        /\ Succeeded(r, "compose_write")
        /\ containers = "down"
        /\ compose_file # before[r].compose

(* ------------------------------- C18 ----------------------------------- *)
\* a restart sequence is in flight: restart_pangolin has been entered and has
\* not returned
InFlight(r) == pc[r] \in InSequence \ {"respond"}

C18_SameValues ==
    \A r \in Requests :
        \A i, j \in DOMAIN sudo_used[r] : sudo_used[r][i] = sudo_used[r][j]

C18_Unchanged == (\E r \in Requests : InFlight(r)) => CONFIG' = CONFIG

\* C18: while a restart sequence is in flight no other request changes the
\* configuration it reads, so the stop and the start of one attempt use the
\* same sudo flag.
C18_ConfigFixedInFlight == []C18_SameValues /\ [][C18_Unchanged]_vars

(* ------------------------------- C19 ----------------------------------- *)
ValidRange(config) ==
    /\ config.port_range.min \in 1..MaxPort
    /\ config.port_range.max \in 1..MaxPort
    /\ config.port_range.min < config.port_range.max

C19_Valid == ValidRange(CONFIG)
C19_UpdateKeepsValid == ValidRange(CONFIG) => ValidRange(CONFIG')

\* C19: the live configuration always has min < max with both bounds in
\* [1, 65535], and no POST /config update takes a valid configuration to an
\* invalid one.
C19_RangeAlwaysValid == []C19_Valid /\ [][C19_UpdateKeepsValid]_vars

(* ------------------------------- C20 ----------------------------------- *)
C20_NothingDone ==
    \A r \in Requests :
        Failed(r, "allocate") =>
            /\ Returned(r)
            /\ ~result[r].success
            /\ attempt[r] = << Step("allocate", FALSE) >>
            /\ new_port[r] = 0
            /\ proc[r] = NoProc
            /\ sudo_used[r] = << >>
            /\ accessing # r
            /\ r \notin superseded
            /\ data[r] = EmptyMap
            /\ Disk = before[r]

C20_NothingChanges ==
    \A r \in Requests :
        Failed(r, "allocate") \/ Failed(r, "allocate")' =>
            /\ containers' = containers
            /\ compose_file' = compose_file
            /\ config_file' = config_file

\* C20: when the allocation fails on a range with min > max the attempt ends
\* at once with a failure outcome: stop_containers is not invoked, no command
\* is run, neither file is opened, and from the failing step until the request
\* leaves the containers and both files stay as they were.
C20_AllocationFailureHasNoEffect == []C20_NothingDone /\ [][C20_NothingChanges]_vars

\* the allocation has failed on an empty range and the request has answered
C20_Witness ==
    \E r \in Requests :
        /\ Failed(r, "allocate")
        /\ CONFIG.port_range.min > CONFIG.port_range.max
        /\ pc[r] = "responded"
        /\ response[r].code = HTTP_SERVER_ERROR
        /\ containers = "up"

(* ------------------------------- C21 ----------------------------------- *)
\* how many times the attempt of r has completed the step `name`
Times(r, name) ==
    Cardinality({ i \in DOMAIN attempt[r] : attempt[r][i] = Step(name, TRUE) })

\* document `new` is document `old` with nothing but the gerbil port
\* mappings rewritten
SameButGerbilPorts(new, old) ==
    /\ old.syntax = "ok" /\ old.root = "mapping"
    /\ new.syntax = "ok" /\ new.root = "mapping"
    /\ IF HasGerbilPorts(old)
       THEN /\ HasGerbilPorts(new)
            /\ Len(GerbilPorts(new)) = Len(GerbilPorts(old))
            /\ [new.data EXCEPT !.services.gerbil.ports = GerbilPorts(old)] = old.data
       ELSE new.data = old.data

\* document `new` is document `old` with nothing but gerbil.start_port set
SameButStartPort(new, old) ==
    /\ old.syntax = "ok" /\ old.root = "mapping"
    /\ new.syntax = "ok" /\ new.root = "mapping"
    /\ "gerbil" \in DOMAIN old.data
    /\ DOMAIN new.data = DOMAIN old.data
    /\ \A k \in DOMAIN old.data \ {"gerbil"} : new.data[k] = old.data[k]
    /\ DOMAIN new.data.gerbil = DOMAIN old.data.gerbil \cup {"start_port"}
    /\ \A k \in DOMAIN old.data.gerbil \ {"start_port"} :
           new.data.gerbil[k] = old.data.gerbil[k]

C21_Counts ==
    \A r \in Requests :
        /\ attempt[r] # << >> =>
               /\ \A name \in {"compose_read", "compose_write",
                               "config_read", "config_write"} : Times(r, name) <= 1
               /\ Times(r, "compose_write") <= Times(r, "compose_read")
               /\ Times(r, "config_write") <= Times(r, "config_read")
        /\ Returned(r) /\ result[r].success =>
               Times(r, "compose_write") = 1 /\ Times(r, "config_write") = 1

C21_Fresh ==
    \A r \in Requests :
        IF attempt'[r] = attempt[r]
        THEN restart_lock = r =>
                 compose_file' = compose_file /\ config_file' = config_file
        ELSE LET composeWrites == Times(r, "compose_write")' - Times(r, "compose_write")
                 configWrites == Times(r, "config_write")' - Times(r, "config_write") IN
             /\ composeWrites > 0 =>
                    /\ compose_file = before[r].compose
                    /\ SameButGerbilPorts(compose_file', compose_file)
                    /\ config_file' = config_file
             /\ configWrites > 0 =>
                    /\ config_file = before[r].config
                    /\ SameButStartPort(config_file', config_file)
                    /\ compose_file' = compose_file
             /\ composeWrites = 0 /\ restart_lock = r => compose_file' = compose_file
             /\ configWrites = 0 /\ restart_lock = r => config_file' = config_file

\* C21: an attempt reads each file once and writes it at most once, a
\* successful attempt writes each exactly once, and what it writes is the
\* document that was on disk when the attempt began with only the gerbil port
\* mappings (manifest) or gerbil.start_port (app config) changed: nothing of
\* an earlier attempt is written back.
C21_ReadFreshWriteOnce == []C21_Counts /\ [][C21_Fresh]_vars

\* a successful attempt that found on disk the manifest an earlier attempt
\* had written
C21_Witness ==
    \E r \in Requests :
        /\ Returned(r)
        /\ result[r].success
        /\ FromStandard(before[r].compose)
        /\ before[r].compose # ManifestStandard
        /\ Times(r, "compose_write") = 1
        /\ Times(r, "config_write") = 1

(* ------------------------- validate_config.py --------------------------- *)
(* The validation tool, run on a configuration file. A JSON number or      *)
(* string is a value with its kind; the warnings about paths that do not   *)
(* exist depend on the file system alone and never change what is          *)
(* returned, so they are left out.                                         *)
JsonInt(n) == [kind |-> "int", val |-> n]
JsonStr(t) == [kind |-> "str", val |-> t]
IsInt(v) == v.kind = "int"

RequiredSections == {"service", "pangolin", "port_range", "docker"}
ValidLevels == {"DEBUG", "INFO", "WARNING", "ERROR"}

MissingSections(config) ==
    { <<"Missing required section", section>> :
          section \in RequiredSections \ DOMAIN config }

ServiceErrors(config) ==
    IF "service" \notin DOMAIN config THEN {}
    ELSE LET service == config.service IN
         (IF /\ "listen_port" \in DOMAIN service
             /\ \/ ~IsInt(service.listen_port)
                \/ service.listen_port.val < 1
                \/ service.listen_port.val > MaxPort
          THEN {<<"Invalid listen_port">>} ELSE {})
         \cup
         (IF "log_level" \in DOMAIN service /\ service.log_level \notin ValidLevels
          THEN {<<"Invalid log_level">>} ELSE {})

\* the if / elif chain over the port range: at most one branch is taken
PortRangeFindings(config) ==
    IF /\ "port_range" \in DOMAIN config
       /\ "min" \in DOMAIN config.port_range
       /\ "max" \in DOMAIN config.port_range
    THEN LET min_port == config.port_range.min
             max_port == config.port_range.max IN
         IF ~IsInt(min_port) \/ ~IsInt(max_port)
         THEN [errors |-> {<<"Port range min and max must be integers">>},
               warnings |-> {}]
         ELSE IF min_port.val >= max_port.val
         THEN [errors |-> {<<"Port range min must be less than max">>},
               warnings |-> {}]
         ELSE IF min_port.val < PrivilegedBelow
         THEN [errors |-> {},
               warnings |-> {<<"Port range min is below 1024">>}]
         ELSE IF max_port.val > MaxPort
         THEN [errors |-> {<<"Port range max exceeds maximum port number">>},
               warnings |-> {}]
         ELSE [errors |-> {}, warnings |-> {}]
    ELSE [errors |-> {}, warnings |-> {}]

DockerErrors(config) ==
    IF /\ "docker" \in DOMAIN config
       /\ "timeout" \in DOMAIN config.docker
       /\ \/ ~IsInt(config.docker.timeout)
          \/ config.docker.timeout.val <= 0
    THEN {<<"Docker timeout must be a positive integer">>} ELSE {}

validate_config(file) ==
    IF file.syntax # "ok"
    THEN Validation(TRUE, {}, {}, FALSE)
    ELSE LET config == file.data
             errors == MissingSections(config) \cup ServiceErrors(config)
                       \cup PortRangeFindings(config).errors
                       \cup DockerErrors(config)
             warnings == PortRangeFindings(config).warnings IN
         Validation(TRUE, errors, warnings, errors = {})

\* the configuration files the tool is run on
PortValues == {0, 1, 1023, 1024, 50000, 65535, 65536, 70000}
RangeValues == { JsonInt(n) : n \in PortValues } \cup { JsonStr("50000") }
Timeouts == { JsonInt(120), JsonInt(0) }

ConfigDocument(lo, hi, timeout) ==
    MappingFile([service |-> [listen_port |-> JsonInt(8080), log_level |-> "INFO"],
                 pangolin |-> DefaultPangolin,
                 port_range |-> [min |-> lo, max |-> hi],
                 docker |-> [use_sudo |-> TRUE, timeout |-> timeout]])

DocumentWithoutRange ==
    MappingFile([service |-> [listen_port |-> JsonInt(8080), log_level |-> "INFO"],
                 pangolin |-> DefaultPangolin,
                 docker |-> [use_sudo |-> TRUE, timeout |-> JsonInt(120)]])

Documents ==
    { ConfigDocument(lo, hi, t) : lo \in RangeValues, hi \in RangeValues, t \in Timeouts }
    \cup { DocumentWithoutRange, MalformedFile }

InitValidate ==
    /\ config_doc \in Documents
    /\ validated = NotValidated
    /\ CONFIG = [port_range |-> FullRange, docker |-> DefaultDocker,
                 pangolin |-> DefaultPangolin]
    /\ restart_lock = NoOne
    /\ compose_file = ManifestStandard
    /\ config_file = AppConfigStandard
    /\ containers = "up"
    /\ pc = [r \in Requests |-> "idle"]
    /\ command = [r \in Requests |-> ""]
    /\ new_port = [r \in Requests |-> 0]
    /\ data = [r \in Requests |-> EmptyMap]
    /\ result = [r \in Requests |-> NoOutcome]
    /\ response = [r \in Requests |-> NoResponse]
    /\ attempt = [r \in Requests |-> <<>>]
    /\ before = [r \in Requests |-> NoSnapshot]
    /\ accessing = NoOne
    /\ superseded = {}
    /\ left = Disk
    /\ proc = [r \in Requests |-> NoProc]
    /\ sudo_used = [r \in Requests |-> <<>>]

\* python3 validate_config.py <config_file>
Validate ==
    /\ ~validated.ran
    /\ validated' = validate_config(config_doc)
    /\ UNCHANGED << CONFIG, restart_lock, compose_file, config_file, containers,
                    pc, command, new_port, data, result, response, attempt,
                    before, accessing, superseded, left, proc, sudo_used,
                    config_doc >>

NextValidate == Validate

SpecValidate == InitValidate /\ [][NextValidate]_vars

(* ------------------------------- C22 ----------------------------------- *)
\* the file holds a port range with integer min and max
IntegerRange(file) ==
    /\ file.syntax = "ok"
    /\ "port_range" \in DOMAIN file.data
    /\ IsInt(file.data.port_range.min)
    /\ IsInt(file.data.port_range.max)

RangeMin(file) == file.data.port_range.min.val
RangeMax(file) == file.data.port_range.max.val

\* C22: for every file with an integer port range, validate_config returns
\* False when min >= max or max > 65535, and returns True only when
\* min < max <= 65535.
C22_RejectsInvalidRange ==
    validated.ran /\ IntegerRange(config_doc) =>
        /\ (RangeMin(config_doc) >= RangeMax(config_doc)
              \/ RangeMax(config_doc) > MaxPort) => ~validated.returned
        /\ validated.returned =>
               /\ RangeMin(config_doc) < RangeMax(config_doc)
               /\ RangeMax(config_doc) <= MaxPort

====
